---- MODULE Spec2Model ----
(***************************************************************************)
(* The perplexity clone.                                                   *)
(*                                                                         *)
(* The search route (src/unnamed/part_000): the request validator, the     *)
(* fixed-window rate limiter, the search-source fetcher, the answer        *)
(* synthesizer and the POST / GET handlers.                                *)
(* The configuration module (src/web/src/lib/config.ts): loadConfig,       *)
(* validateConfig and the getConfig / resetConfig singleton.               *)
(* The chat component (src/unnamed/part_001 and                            *)
(* src/web/src/components/ChatInterface.tsx): handleSubmit, handleStop and *)
(* the settling of the promises handleSubmit awaits.                       *)
(*                                                                         *)
(* Strings whose characters matter (query, location) are sequences of runs *)
(* [c |-> character, n |-> repetitions], so that the 500 and 100 character *)
(* limits are reached with short sequences.  Error messages are sequences  *)
(* of words, so that String.includes is a search for a run of words.       *)
(* Numbers of the configuration are counted in tenths, so that the         *)
(* temperature 0.7 is 7.                                                   *)
(***************************************************************************)
EXTENDS Integers, Sequences, FiniteSets, TLC

\* ------------------------------------------------------------------ bounds
\* at most this many requests are accepted by the server in one behaviour
MaxRequests == 12
\* at most this many advances of the clock in one behaviour
MaxTicks == 1
\* at most this many queries are submitted in the chat component
MaxQueries == 3
\* the texts given to the validator have at most this many runs of characters
MaxRuns == 3

\* the request handlers that may be in flight at the same time
Handlers == {"h1", "h2"}

\* ----------------------------------------------------------------- strings
Denylist == {"<", ">", "\"", "'", "&"}
Whitespace == {" "}

Run(c, n) == [c |-> c, n |-> n]

RECURSIVE StrLen(_)
\* String.length
StrLen(s) == IF s = <<>> THEN 0 ELSE Head(s).n + StrLen(Tail(s))

RECURSIVE TrimStart(_)
TrimStart(s) ==
    IF s = <<>> THEN s
    ELSE IF Head(s).c \in Whitespace THEN TrimStart(Tail(s))
    ELSE s

RECURSIVE TrimEnd(_)
TrimEnd(s) ==
    IF s = <<>> THEN s
    ELSE IF s[Len(s)].c \in Whitespace THEN TrimEnd(SubSeq(s, 1, Len(s) - 1))
    ELSE s

\* String.prototype.trim
Trim(s) == TrimEnd(TrimStart(s))

RECURSIVE SanitizeFirstOnly(_)
\* a mutant: replace without the g flag, which removes the first occurrence only
SanitizeFirstOnly(s) ==
    IF s = <<>> THEN s
    ELSE IF Head(s).c \in Denylist
    THEN IF Head(s).n > 1 THEN <<Run(Head(s).c, Head(s).n - 1)>> \o Tail(s) ELSE Tail(s)
    ELSE <<Head(s)>> \o SanitizeFirstOnly(Tail(s))

IsKept(r) == r.c \notin Denylist

\* s.replace(/[<>\"'&]/g, '')
Sanitize(s) == SelectSeq(s, IsKept)

\* ---------------------------------------------------------------- messages
\* error.message.includes(pat), on messages cut into words
Includes(msg, pat) ==
    \E i \in 1..(Len(msg) - Len(pat) + 1) : SubSeq(msg, i, i + Len(pat) - 1) = pat

MsgInvalidBody == <<"Invalid", "request", "body">>
MsgQueryRequired == <<"Query", "is", "required", "and", "must", "be", "a", "string">>
MsgQueryEmpty == <<"Query", "cannot", "be", "empty">>
MsgQueryTooLong == <<"Query", "is", "too", "long", "(max", "500", "characters)">>
MsgQueryOnlyInvalid == <<"Query", "contains", "only", "invalid", "characters">>
MsgSearchFailed == <<"Failed", "to", "perform", "web", "search">>
MsgAnswerFailed == <<"Failed", "to", "generate", "answer">>
MsgMissingEnv == <<"Missing", "required", "environment", "variables">>
MsgUriMalformed == <<"URI", "malformed">>
MsgConfigError == <<"Service", "configuration", "error">>
MsgRateLimited == <<"Rate", "limit", "exceeded.", "Please", "try", "again", "later.">>
MsgInternal == <<"Internal", "server", "error">>
MsgMethodNotAllowed == <<"Method", "not", "allowed">>
MsgFallbackAnswer == <<"Unable", "to", "generate", "answer", "at", "this", "time.">>

ValidatorMessages ==
    {MsgInvalidBody, MsgQueryRequired, MsgQueryEmpty, MsgQueryTooLong, MsgQueryOnlyInvalid}

\* ------------------------------------------------------- decoded JSON values
\* a value is [t |-> its kind, s |-> its characters when it is a string]
JUndefined == [t |-> "undefined", s |-> <<>>]
JNull == [t |-> "null", s |-> <<>>]
JZero == [t |-> "zero", s |-> <<>>]
JNumber == [t |-> "number", s |-> <<>>]
JFalse == [t |-> "false", s |-> <<>>]
JTrue == [t |-> "true", s |-> <<>>]
JString(s) == [t |-> "string", s |-> s]

\* !!v
Truthy(v) ==
    /\ v.t \notin {"undefined", "null", "zero", "false"}
    /\ ~(v.t = "string" /\ StrLen(v.s) = 0)

\* typeof v
TypeOf(v) ==
    CASE v.t = "undefined" -> "undefined"
      [] v.t \in {"zero", "number"} -> "number"
      [] v.t \in {"false", "true"} -> "boolean"
      [] v.t = "string" -> "string"
      [] OTHER -> "object"

\* a decoded body: a value with the two properties the validator destructures
BodyOf(v) == [t |-> v.t, s |-> v.s, query |-> JUndefined, location |-> JUndefined]
JArray == [t |-> "array", s |-> <<>>, query |-> JUndefined, location |-> JUndefined]
JObject(q, l) == [t |-> "object", s |-> <<>>, query |-> q, location |-> l]
NoBody == [t |-> "none", s |-> <<>>, query |-> JUndefined, location |-> JUndefined]

\* --------------------------------------------------------------- validator
Threw(msg) ==
    [ok |-> FALSE, message |-> msg, query |-> <<>>, hasLocation |-> FALSE, location |-> <<>>]

Accepted(q, hasLoc, loc) ==
    [ok |-> TRUE, message |-> <<>>, query |-> q, hasLocation |-> hasLoc, location |-> loc]

\* a mutant: a location of exactly 100 characters is not accepted
LocationOfBelow100(location) ==
    IF Truthy(location) /\ TypeOf(location) = "string"
       /\ StrLen(Trim(location.s)) > 0 /\ StrLen(Trim(location.s)) < 100
    THEN [has |-> TRUE, value |-> Sanitize(Trim(location.s))]
    ELSE [has |-> FALSE, value |-> <<>>]

\* the optional location parameter of validateSearchRequest
LocationOf(location) ==
    IF Truthy(location) /\ TypeOf(location) = "string"
       /\ StrLen(Trim(location.s)) > 0 /\ StrLen(Trim(location.s)) <= 100
    THEN [has |-> TRUE, value |-> Sanitize(Trim(location.s))]
    ELSE [has |-> FALSE, value |-> <<>>]

\* a mutant: the check of the trimmed length is missing
validateSearchRequestNoEmptyCheck(body) ==
    IF ~Truthy(body) \/ TypeOf(body) # "object" THEN Threw(MsgInvalidBody)
    ELSE IF ~Truthy(body.query) \/ TypeOf(body.query) # "string" THEN Threw(MsgQueryRequired)
    ELSE IF StrLen(Trim(body.query.s)) > 500 THEN Threw(MsgQueryTooLong)
    ELSE Accepted(Sanitize(Trim(body.query.s)),
                  LocationOf(body.location).has, LocationOf(body.location).value)

validateSearchRequest(body) ==
    IF ~Truthy(body) \/ TypeOf(body) # "object" THEN Threw(MsgInvalidBody)
    ELSE IF ~Truthy(body.query) \/ TypeOf(body.query) # "string" THEN Threw(MsgQueryRequired)
    ELSE IF StrLen(Trim(body.query.s)) = 0 THEN Threw(MsgQueryEmpty)
    ELSE IF StrLen(Trim(body.query.s)) > 500 THEN Threw(MsgQueryTooLong)
    ELSE IF StrLen(Sanitize(Trim(body.query.s))) = 0 THEN Threw(MsgQueryOnlyInvalid)
    ELSE Accepted(Sanitize(Trim(body.query.s)),
                  LocationOf(body.location).has, LocationOf(body.location).value)

\* ------------------------------------------------------------ rate limiter
RATE_LIMIT_WINDOW == 60 * 1000
RATE_LIMIT_MAX_REQUESTS == 10

\* the value of rateLimitStore.get(clientId) for a client with no entry
NoEntry == [count |-> 0, resetTime |-> -1]

\* a mutant: the limit is compared with > instead of >=
checkRateLimitOffByOne(store, clientId, t) ==
    IF store[clientId] = NoEntry \/ t > store[clientId].resetTime
    THEN [allowed |-> TRUE,
          store |-> [store EXCEPT ![clientId] = [count |-> 1, resetTime |-> t + RATE_LIMIT_WINDOW]]]
    ELSE IF store[clientId].count > RATE_LIMIT_MAX_REQUESTS
    THEN [allowed |-> FALSE, store |-> store]
    ELSE [allowed |-> TRUE,
          store |-> [store EXCEPT ![clientId].count = @ + 1]]

\* a mutant: a denied request is counted as well
checkRateLimitCountsDenied(store, clientId, t) ==
    IF store[clientId] = NoEntry \/ t > store[clientId].resetTime
    THEN [allowed |-> TRUE,
          store |-> [store EXCEPT ![clientId] = [count |-> 1, resetTime |-> t + RATE_LIMIT_WINDOW]]]
    ELSE IF store[clientId].count >= RATE_LIMIT_MAX_REQUESTS
    THEN [allowed |-> FALSE, store |-> [store EXCEPT ![clientId].count = @ + 1]]
    ELSE [allowed |-> TRUE,
          store |-> [store EXCEPT ![clientId].count = @ + 1]]

\* a mutant: the limit is never checked
checkRateLimitNoLimit(store, clientId, t) ==
    IF store[clientId] = NoEntry \/ t > store[clientId].resetTime
    THEN [allowed |-> TRUE,
          store |-> [store EXCEPT ![clientId] = [count |-> 1, resetTime |-> t + RATE_LIMIT_WINDOW]]]
    ELSE [allowed |-> TRUE,
          store |-> [store EXCEPT ![clientId].count = @ + 1]]

\* checkRateLimit(clientId) at Date.now() = t: the verdict and the store it leaves
checkRateLimit(store, clientId, t) ==
    IF store[clientId] = NoEntry \/ t > store[clientId].resetTime
    THEN [allowed |-> TRUE,
          store |-> [store EXCEPT ![clientId] = [count |-> 1, resetTime |-> t + RATE_LIMIT_WINDOW]]]
    ELSE IF store[clientId].count >= RATE_LIMIT_MAX_REQUESTS
    THEN [allowed |-> FALSE, store |-> store]
    ELSE [allowed |-> TRUE,
          store |-> [store EXCEPT ![clientId].count = @ + 1]]

\* ---------------------------------------------------- search-source fetcher
\* a raw result of the provider: a missing or empty field is ""
Item(title, link, snippet, favicon) ==
    [title |-> title, link |-> link, snippet |-> snippet, favicon |-> favicon]

UrlA == "https://a.example/1"
UrlB == "https://b.example/2"
\* the links new URL(link) can parse
ParseableUrls == {UrlA, UrlB}
\* a link that is no absolute URL: new URL(link) throws
UnparseableLink == "not a url"

\* new URL(u).hostname, for u in ParseableUrls
Hostname(u) == IF u = UrlA THEN "a.example" ELSE "b.example"

\* the callback of organic_results.map throws: item.favicon is missing and
\* new URL(item.link || '') cannot parse the link
MapThrows(item) == item.favicon = "" /\ item.link \notin ParseableUrls

\* the callback of organic_results.map, for item number index (from 1)
MapItem(item, index) ==
    [id |-> index,
     title |-> IF item.title # "" THEN item.title ELSE "No title",
     url |-> item.link,
     description |-> IF item.snippet # "" THEN item.snippet ELSE "No description available",
     favicon |-> IF item.favicon # "" THEN item.favicon
                 ELSE IF item.link \in ParseableUrls THEN Hostname(item.link)
                 ELSE ""]

HasUrl(source) == source.url # ""

SearchFailed == [ok |-> FALSE, sources |-> <<>>]
SearchOk(sources) == [ok |-> TRUE, sources |-> sources]

\* the provider's decoded answer: data.error, and data.organic_results
\* (kind "absent", "nonarray" or "array")
SearchData(error, kind, results) == [error |-> error, kind |-> kind, results |-> results]

\* a mutant: a missing results array is an error
MapResultsAbsentFails(data) ==
    IF data.error THEN SearchFailed
    ELSE IF data.kind # "array" THEN SearchFailed
    ELSE IF \E i \in 1..Len(data.results) : MapThrows(data.results[i]) THEN SearchFailed
    ELSE SearchOk(SelectSeq([i \in 1..Len(data.results) |-> MapItem(data.results[i], i)],
                            HasUrl))

\* performSerpApiSearch from the decoded answer on: the error check, the
\* array check, map and filter; any throw becomes 'Failed to perform web search'
MapResults(data) ==
    IF data.error THEN SearchFailed
    ELSE IF data.kind # "array" THEN SearchOk(<<>>)
    ELSE IF \E i \in 1..Len(data.results) : MapThrows(data.results[i]) THEN SearchFailed
    ELSE SearchOk(SelectSeq([i \in 1..Len(data.results) |-> MapItem(data.results[i], i)],
                            HasUrl))

\* -------------------------------------------------------- answer synthesizer
\* sourceContext: one entry "[index] title: description" per source
SourceContext(sources) ==
    [i \in 1..Len(sources) |->
        [index |-> i, title |-> sources[i].title, description |-> sources[i].description]]

\* how fetch(url) settles: it rejects, or answers with or without an ok status
FetchOutcomes == {"reject", "notok", "ok"}

\* the completion API's outcomes: it rejects, or answers with or without content
LlmOutcomes == {"reject", "content", "empty"}

\* completion.choices[0]?.message?.content || 'Unable to generate answer at this time.'
AnswerOf(outcome) == IF outcome = "content" THEN <<"generated", "answer">> ELSE MsgFallbackAnswer

\* ---------------------------------------------------------------- responses
SecurityHeaders ==
    {"X-Content-Type-Options", "X-Frame-Options", "X-XSS-Protection", "Referrer-Policy"}

NoResponse ==
    [status |-> 0, error |-> <<>>, answer |-> <<>>, sources |-> <<>>, headers |-> {}]

\* NextResponse.json({error: msg}, {status})
JsonError(msg, status) ==
    [status |-> status, error |-> msg, answer |-> <<>>, sources |-> <<>>,
     headers |-> {"content-type"}]

\* NextResponse.json({answer, sources})
JsonResult(answer, sources) ==
    [status |-> 200, error |-> <<>>, answer |-> answer, sources |-> sources,
     headers |-> {"content-type"}]

\* a mutant: one of the four headers is not set
addSecurityHeadersNoReferrer(response) ==
    [response EXCEPT !.headers = @ \cup (SecurityHeaders \ {"Referrer-Policy"})]

addSecurityHeaders(response) ==
    [response EXCEPT !.headers = @ \cup SecurityHeaders]

\* a mutant: the validator's messages are not recognised
CatchNoValidation(msg) ==
    IF Includes(msg, MsgMissingEnv)
    THEN addSecurityHeaders(JsonError(MsgConfigError, 500))
    ELSE addSecurityHeaders(JsonError(MsgInternal, 500))

\* the catch block of POST: the response for an error with message msg
Catch(msg) ==
    IF Includes(msg, MsgMissingEnv)
    THEN addSecurityHeaders(JsonError(MsgConfigError, 500))
    ELSE IF Includes(msg, <<"Query">>) \/ Includes(msg, <<"Invalid", "request">>)
    THEN addSecurityHeaders(JsonError(msg, 400))
    ELSE addSecurityHeaders(JsonError(MsgInternal, 500))

\* ------------------------------------------------------------------ request
\* a header that the request does not carry (get returns null); "" is an
\* empty header value, falsy as well
NoHeader == "<null>"

\* a mutant: x-real-ip is preferred to x-forwarded-for
ClientIpRealFirst(xff, xri) ==
    IF xri \notin {NoHeader, ""} THEN xri
    ELSE IF xff \notin {NoHeader, ""} THEN xff
    ELSE "unknown"

\* request.headers.get('x-forwarded-for') || request.headers.get('x-real-ip') || 'unknown'
ClientIp(xff, xri) ==
    IF xff \notin {NoHeader, ""} THEN xff
    ELSE IF xri \notin {NoHeader, ""} THEN xri
    ELSE "unknown"

ForwardedFor == {NoHeader, "", "203.0.113.7"}
RealIp == {NoHeader, "", "198.51.100.9"}
ClientIds == {ClientIp(f, r) : f \in ForwardedFor, r \in RealIp}

EnvVars == {"SERPAPI_API_KEY", "OPENAI_API_KEY"}

\* the message request.json() rejects with: the body is empty, or it is text
\* that is no JSON; the runtime words the second one, and newer runtimes
\* quote the offending text in it
DecodeMessages(raw) ==
    IF raw = "empty"
    THEN {<<"Unexpected", "end", "of", "JSON", "input">>}
    ELSE {<<"Unexpected", "token", "Q", "in", "JSON", "at", "position", "0">>,
          <<"Unexpected", "token", "'Q',", "\"", "Query", "\"", "is", "not", "valid", "JSON">>}

\* a character encodeURIComponent throws URIError on
LoneSurrogate == "\\uD800"
EncodeThrows(query) == \E i \in 1..Len(query) : query[i].c = LoneSurrogate

\* -------------------------------------------------------------------- state
VARIABLES
    \* the search route (src/unnamed/part_000)
    rateLimitStore,   \* the Map of the rate limiter: client -> entry, or NoEntry
    requiredEnvVars,  \* the two keys read at module load: TRUE when set
    now,              \* Date.now()
    h,                \* per handler: where POST stands and its locals
    windowCalls,      \* history: per client, the checkRateLimit calls made since
                      \* (and with) the call that created its current entry
    lastAllowed,      \* history: per client, the verdict of its latest call
    nreq,             \* the requests accepted so far
    nticks,           \* the advances of the clock so far
    \* a call of validateSearchRequest on its own
    input,            \* its argument, the decoded body
    validated,        \* what it returned or threw, NotValidated before the call
    \* the configuration module (src/web/src/lib/config.ts)
    env,              \* process.env
    configInstance,   \* the singleton: NoConfig (null) or a configuration
    returned,         \* what the latest getConfig call returned or threw
    \* the chat component (src/unnamed/part_001, ChatInterface.tsx)
    component,        \* which of the two versions of the component runs
    messages,         \* useState<Message[]>
    currentQuery,     \* useState('')
    isLoading,        \* useState(false)
    abortControllerRef, \* useRef: NoController (null) or the controller of a call
    aborted,          \* the controllers whose signal is aborted
    calls,            \* per handleSubmit call: the await it stands at
    stopped           \* history: the calls whose controller handleStop aborted

routeVars == <<rateLimitStore, requiredEnvVars, now, h, windowCalls, lastAllowed, nreq, nticks>>
validatorVars == <<input, validated>>
configVars == <<env, configInstance, returned>>
chatVars == <<component, messages, currentQuery, isLoading, abortControllerRef, aborted,
              calls, stopped>>

vars == <<routeVars, validatorVars, configVars, chatVars>>

\* a handler with no request
Idle ==
    [pc |-> "idle", method |-> "", raw |-> "", body |-> NoBody, query |-> <<>>,
     data |-> SearchData(FALSE, "none", <<>>), sources |-> <<>>, context |-> <<>>,
     response |-> NoResponse, stages |-> <<>>, cause |-> ""]

\* validateEnvironment(): the keys that are missing
MissingEnv == {k \in EnvVars : ~requiredEnvVars[k]}

\* the handler ends with this response
Finish(p, rec, response, cause) ==
    h' = [h EXCEPT ![p] = [rec EXCEPT !.pc = "done", !.response = response,
                                      !.cause = cause,
                                      !.stages = Append(rec.stages, "respond")]]

\* a mutant: the handler goes on to the body without consulting the limiter
POST_StartNoRateLimit(p, xffs, xris) ==
    /\ h[p].pc = "idle"
    /\ nreq < MaxRequests
    /\ nreq' = nreq + 1
    /\ LET rec == [Idle EXCEPT !.method = "POST", !.stages = <<"environment">>]
       IN  IF MissingEnv # {}
           THEN Finish(p, rec, Catch(MsgMissingEnv), "config")
           ELSE h' = [h EXCEPT ![p] = [rec EXCEPT !.pc = "awaitBody"]]
    /\ UNCHANGED <<rateLimitStore, windowCalls, lastAllowed, requiredEnvVars, now, nticks>>
    /\ UNCHANGED <<validatorVars, configVars, chatVars>>

\* POST from its start to its first await (request.json()): validateEnvironment,
\* the client identifier, checkRateLimit
POST_Start(p, xffs, xris) ==
    /\ h[p].pc = "idle"
    /\ nreq < MaxRequests
    /\ nreq' = nreq + 1
    /\ \E xff \in xffs, xri \in xris :
        LET rec == [Idle EXCEPT !.method = "POST", !.stages = <<"environment">>]
            rl == checkRateLimit(rateLimitStore, ClientIp(xff, xri), now)
            counted == [rec EXCEPT !.stages = Append(@, "ratelimit")]
        IN  IF MissingEnv # {}
            THEN /\ Finish(p, rec, Catch(MsgMissingEnv), "config")
                 /\ UNCHANGED <<rateLimitStore, windowCalls, lastAllowed>>
            ELSE /\ rateLimitStore' = rl.store
                 /\ windowCalls' =
                        [windowCalls EXCEPT ![ClientIp(xff, xri)] =
                            IF rl.store[ClientIp(xff, xri)].resetTime
                               # rateLimitStore[ClientIp(xff, xri)].resetTime
                            THEN 1 ELSE @ + 1]
                 /\ lastAllowed' = [lastAllowed EXCEPT ![ClientIp(xff, xri)] = rl.allowed]
                 /\ IF rl.allowed
                    THEN h' = [h EXCEPT ![p] = [counted EXCEPT !.pc = "awaitBody"]]
                    ELSE Finish(p, counted,
                                addSecurityHeaders(JsonError(MsgRateLimited, 429)),
                                "ratelimit")
    /\ UNCHANGED <<requiredEnvVars, now, nticks>>
    /\ UNCHANGED <<validatorVars, configVars, chatVars>>

\* request.json() settles; validateSearchRequest; performSerpApiSearch up to
\* its await of fetch
POST_Body(p, raws, bodies) ==
    /\ h[p].pc = "awaitBody"
    /\ \E raw \in raws :
        LET rec == [h[p] EXCEPT !.raw = raw, !.stages = Append(@, "decode")]
        IN  IF raw # "json"
            THEN \E msg \in DecodeMessages(raw) : Finish(p, rec, Catch(msg), "decode")
            ELSE \E body \in bodies :
                LET v == validateSearchRequest(body)
                    checked == [rec EXCEPT !.body = body, !.stages = Append(@, "validate")]
                IN  IF ~v.ok THEN Finish(p, checked, Catch(v.message), "validator")
                    ELSE IF EncodeThrows(v.query)
                    THEN Finish(p, [checked EXCEPT !.query = v.query],
                                Catch(MsgUriMalformed), "encode")
                    ELSE h' = [h EXCEPT ![p] =
                                 [checked EXCEPT !.pc = "awaitFetch", !.query = v.query,
                                                 !.stages = Append(@, "search")]]
    /\ UNCHANGED <<rateLimitStore, requiredEnvVars, now, windowCalls, lastAllowed, nreq, nticks>>
    /\ UNCHANGED <<validatorVars, configVars, chatVars>>

\* a mutant: a failed fetch of the search is tried again
Search_FetchRetries(p, outcomes) ==
    /\ h[p].pc = "awaitFetch"
    /\ \E outcome \in outcomes :
        IF outcome = "ok"
        THEN h' = [h EXCEPT ![p].pc = "awaitSearchJson"]
        ELSE IF Len(h[p].stages) < 6
        THEN h' = [h EXCEPT ![p].stages = Append(@, "search")]
        ELSE Finish(p, h[p], Catch(MsgSearchFailed), "search")
    /\ UNCHANGED <<rateLimitStore, requiredEnvVars, now, windowCalls, lastAllowed, nreq, nticks>>
    /\ UNCHANGED <<validatorVars, configVars, chatVars>>

\* fetch(url) settles: it rejects, or answers with or without an ok status
Search_Fetch(p, outcomes) ==
    /\ h[p].pc = "awaitFetch"
    /\ \E outcome \in outcomes :
        IF outcome = "ok"
        THEN h' = [h EXCEPT ![p].pc = "awaitSearchJson"]
        ELSE Finish(p, h[p], Catch(MsgSearchFailed), "search")
    /\ UNCHANGED <<rateLimitStore, requiredEnvVars, now, windowCalls, lastAllowed, nreq, nticks>>
    /\ UNCHANGED <<validatorVars, configVars, chatVars>>

\* response.json() of the search settles; the rest of performSerpApiSearch;
\* generateAnswer up to its await of the completion
Search_Json(p, datas) ==
    /\ h[p].pc = "awaitSearchJson"
    /\ \E decoded \in BOOLEAN :
        IF ~decoded THEN Finish(p, h[p], Catch(MsgSearchFailed), "search")
        ELSE \E data \in datas :
            LET rec == [h[p] EXCEPT !.data = data] IN
            IF ~MapResults(data).ok THEN Finish(p, rec, Catch(MsgSearchFailed), "search")
            ELSE h' = [h EXCEPT ![p] =
                         [rec EXCEPT !.pc = "awaitCompletion",
                                     !.sources = MapResults(data).sources,
                                     !.context = SourceContext(MapResults(data).sources),
                                     !.stages = Append(@, "synthesize")]]
    /\ UNCHANGED <<rateLimitStore, requiredEnvVars, now, windowCalls, lastAllowed, nreq, nticks>>
    /\ UNCHANGED <<validatorVars, configVars, chatVars>>

\* openai.chat.completions.create settles; the response is assembled
Answer_Done(p, outcomes) ==
    /\ h[p].pc = "awaitCompletion"
    /\ \E outcome \in outcomes :
        IF outcome = "reject" THEN Finish(p, h[p], Catch(MsgAnswerFailed), "llm")
        ELSE Finish(p, h[p],
                    addSecurityHeaders(JsonResult(AnswerOf(outcome), h[p].sources)), "")
    /\ UNCHANGED <<rateLimitStore, requiredEnvVars, now, windowCalls, lastAllowed, nreq, nticks>>
    /\ UNCHANGED <<validatorVars, configVars, chatVars>>

\* the methods of requests to the route, and those the route module exports
Methods == {"POST", "GET", "PUT", "DELETE", "PATCH"}
RouteExports == {"POST", "GET"}

\* export async function GET()
GET == addSecurityHeaders(JsonError(MsgMethodNotAllowed, 405))

\* a method the module exports no handler for: no code of the route runs, the
\* framework answers 405 itself
NoHandler == [status |-> 405, error |-> <<>>, answer |-> <<>>, sources |-> <<>>, headers |-> {}]

\* a request with another method than POST
Other_Method(p) ==
    /\ h[p].pc = "idle"
    /\ nreq < MaxRequests
    /\ nreq' = nreq + 1
    /\ \E m \in Methods \ {"POST"} :
        h' = [h EXCEPT ![p] = [Idle EXCEPT !.pc = "done", !.method = m,
                                          !.response = IF m \in RouteExports THEN GET
                                                       ELSE NoHandler]]
    /\ UNCHANGED <<rateLimitStore, requiredEnvVars, now, windowCalls, lastAllowed, nticks>>
    /\ UNCHANGED <<validatorVars, configVars, chatVars>>

\* the response has been sent: the handler is free for the next request
Return(p) ==
    /\ h[p].pc = "done"
    /\ h' = [h EXCEPT ![p] = Idle]
    /\ UNCHANGED <<rateLimitStore, requiredEnvVars, now, windowCalls, lastAllowed, nreq, nticks>>
    /\ UNCHANGED <<validatorVars, configVars, chatVars>>

\* the clock advances by a whole window (an entry made just before is at its
\* resetTime) or by a millisecond more (it is past it)
Tick ==
    /\ nticks < MaxTicks
    /\ nticks' = nticks + 1
    /\ \E d \in {RATE_LIMIT_WINDOW, RATE_LIMIT_WINDOW + 1} : now' = now + d
    /\ UNCHANGED <<rateLimitStore, requiredEnvVars, h, windowCalls, lastAllowed, nreq>>
    /\ UNCHANGED <<validatorVars, configVars, chatVars>>

\* ------------------------------------------- validateSearchRequest, called
\* validateSearchRequest has not been called yet
NotValidated ==
    [ok |-> FALSE, message |-> <<"not", "called">>, query |-> <<>>,
     hasLocation |-> FALSE, location |-> <<>>]

\* one call of validateSearchRequest
Validate ==
    /\ validated = NotValidated
    /\ validated' = validateSearchRequest(input)
    /\ UNCHANGED <<input, routeVars, configVars, chatVars>>

\* ----------------------------------------------------- configuration module
\* The value of an environment variable is a text: unset (undefined), the
\* empty text, or characters.  Of the characters the model keeps what
\* parseInt and parseFloat read: a sign, whether digits lead the text, the
\* digits before the point, whether a fraction follows and its first digit,
\* and the other characters (the "abc" of "12abc").
EnvUnset ==
    [set |-> FALSE, empty |-> TRUE, neg |-> FALSE, digits |-> FALSE, whole |-> 0,
     frac |-> FALSE, tenths |-> 0, word |-> ""]
EnvEmpty == [EnvUnset EXCEPT !.set = TRUE]
\* a text that does not start with a number, such as a key or "abc"
EnvWord(w) == [EnvUnset EXCEPT !.set = TRUE, !.empty = FALSE, !.word = w]
\* the text of the integer n, such as "-5" or "20"
EnvInt(n) ==
    [set |-> TRUE, empty |-> FALSE, neg |-> n < 0, digits |-> TRUE,
     whole |-> IF n < 0 THEN -n ELSE n, frac |-> FALSE, tenths |-> 0, word |-> ""]
\* the text of a decimal number with one fractional digit, given in tenths:
\* EnvDecimal(-1) is "-0.1", EnvDecimal(11) is "1.1"
EnvDecimal(t) ==
    [set |-> TRUE, empty |-> FALSE, neg |-> t < 0, digits |-> TRUE,
     whole |-> (IF t < 0 THEN -t ELSE t) \div 10, frac |-> TRUE,
     tenths |-> (IF t < 0 THEN -t ELSE t) % 10, word |-> ""]
\* a number followed by other characters, such as "12abc"
EnvIntThenWord(n, w) == [EnvInt(n) EXCEPT !.word = w]

\* !value, for the value of an environment variable
Falsy(value) == ~value.set \/ value.empty

\* a number: NaN, or a value counted in tenths, so that 0.7 is 7 tenths
NaN == [nan |-> TRUE, tenths |-> 0]
Num(tenths) == [nan |-> FALSE, tenths |-> tenths]
Whole(n) == Num(10 * n)

\* parseInt(value, 10): the leading integer, whatever follows it
parseInt(value) ==
    IF ~value.digits THEN NaN
    ELSE Whole(IF value.neg THEN -value.whole ELSE value.whole)

\* parseFloat(value): the leading decimal number, whatever follows it
parseFloat(value) ==
    IF ~value.digits THEN NaN
    ELSE LET t == 10 * value.whole + (IF value.frac THEN value.tenths ELSE 0)
         IN  Num(IF value.neg THEN -t ELSE t)

DEFAULT_CONFIG ==
    [openai |-> [model |-> EnvWord("gpt-3.5-turbo"), maxTokens |-> Whole(1000), temperature |-> Num(7)],
     rateLimit |-> [windowMs |-> Whole(60 * 1000), maxRequests |-> Whole(10)],
     search |-> [maxResults |-> Whole(8), maxQueryLength |-> Whole(500),
                 timeoutMs |-> Whole(10 * 1000)]]

MsgMissingVariable(name) == <<"Missing", "required", "environment", "variable:", name>>
MsgNotANumber(name) == <<"Environment", "variable", name, "must", "be", "a", "valid", "number">>

\* what a function of the module does: it returns a value or throws an error
Returns(value) == [threw |-> FALSE, message |-> <<>>, value |-> value]
Throws(msg) == [threw |-> TRUE, message |-> msg, value |-> NaN]

getRequiredEnvVar(e, name) ==
    IF Falsy(e[name]) THEN Throws(MsgMissingVariable(name)) ELSE Returns(e[name])

\* process.env[name] || defaultValue
getOptionalEnvVar(e, name, defaultValue) ==
    IF Falsy(e[name]) THEN defaultValue ELSE e[name]

getNumericEnvVar(e, name, defaultValue) ==
    IF Falsy(e[name]) THEN Returns(defaultValue)
    ELSE IF parseInt(e[name]).nan THEN Throws(MsgNotANumber(name))
    ELSE Returns(parseInt(e[name]))

getFloatEnvVar(e, name, defaultValue) ==
    IF Falsy(e[name]) THEN Returns(defaultValue)
    ELSE IF parseFloat(e[name]).nan THEN Throws(MsgNotANumber(name))
    ELSE Returns(parseFloat(e[name]))

\* validateConfig: the message it throws, <<>> when it returns
validateConfig(config) ==
    IF config.openai.temperature.tenths < 0 \/ config.openai.temperature.tenths > 10
    THEN <<"AI_TEMPERATURE", "must", "be", "between", "0.0", "and", "1.0">>
    ELSE IF config.rateLimit.windowMs.tenths <= 0 THEN <<"RATE_LIMIT_WINDOW_MS", "must", "be", "positive">>
    ELSE IF config.rateLimit.maxRequests.tenths <= 0 THEN <<"RATE_LIMIT_MAX_REQUESTS", "must", "be", "positive">>
    ELSE IF config.search.maxResults.tenths <= 0 \/ config.search.maxResults.tenths > 10 * 20
    THEN <<"MAX_SEARCH_RESULTS", "must", "be", "between", "1", "and", "20">>
    ELSE IF config.search.maxQueryLength.tenths <= 0
            \/ config.search.maxQueryLength.tenths > 10 * 1000
    THEN <<"MAX_QUERY_LENGTH", "must", "be", "between", "1", "and", "1000">>
    ELSE IF config.search.timeoutMs.tenths <= 0 THEN <<"SEARCH_TIMEOUT_MS", "must", "be", "positive">>
    ELSE <<>>

\* the reads of loadConfig, in the order of the object literal
ConfigReads(e) ==
    <<getRequiredEnvVar(e, "GOOGLE_SEARCH_API_KEY"),
      getRequiredEnvVar(e, "GOOGLE_SEARCH_ENGINE_ID"),
      getRequiredEnvVar(e, "OPENAI_API_KEY"),
      getNumericEnvVar(e, "AI_MAX_TOKENS", DEFAULT_CONFIG.openai.maxTokens),
      getFloatEnvVar(e, "AI_TEMPERATURE", DEFAULT_CONFIG.openai.temperature),
      getNumericEnvVar(e, "RATE_LIMIT_WINDOW_MS", DEFAULT_CONFIG.rateLimit.windowMs),
      getNumericEnvVar(e, "RATE_LIMIT_MAX_REQUESTS", DEFAULT_CONFIG.rateLimit.maxRequests),
      getNumericEnvVar(e, "MAX_SEARCH_RESULTS", DEFAULT_CONFIG.search.maxResults),
      getNumericEnvVar(e, "MAX_QUERY_LENGTH", DEFAULT_CONFIG.search.maxQueryLength),
      getNumericEnvVar(e, "SEARCH_TIMEOUT_MS", DEFAULT_CONFIG.search.timeoutMs)>>

\* the configuration object loadConfig builds when no read throws
ConfigOf(e) ==
    LET r == ConfigReads(e) IN
    [googleSearch |-> [apiKey |-> r[1].value, engineId |-> r[2].value],
     openai |-> [apiKey |-> r[3].value,
                 model |-> getOptionalEnvVar(e, "AI_MODEL", DEFAULT_CONFIG.openai.model),
                 maxTokens |-> r[4].value, temperature |-> r[5].value],
     rateLimit |-> [windowMs |-> r[6].value, maxRequests |-> r[7].value],
     search |-> [maxResults |-> r[8].value, maxQueryLength |-> r[9].value,
                 timeoutMs |-> r[10].value],
     anthropic |-> getOptionalEnvVar(e, "ANTHROPIC_API_KEY", EnvUnset),
     bing |-> getOptionalEnvVar(e, "BING_SEARCH_API_KEY", EnvUnset)]

\* loadConfig(): the first read that throws ends it; then validateConfig
loadConfig(e) ==
    LET r == ConfigReads(e)
        failed == {i \in 1..Len(r) : r[i].threw}
        first == CHOOSE i \in failed : \A j \in failed : i <= j
    IN  IF failed # {} THEN Throws(r[first].message)
        ELSE IF validateConfig(ConfigOf(e)) # <<>> THEN Throws(validateConfig(ConfigOf(e)))
        ELSE Returns(ConfigOf(e))

RequiredKeys == {"GOOGLE_SEARCH_API_KEY", "GOOGLE_SEARCH_ENGINE_ID", "OPENAI_API_KEY"}
IntegerKeys ==
    {"AI_MAX_TOKENS", "RATE_LIMIT_WINDOW_MS", "RATE_LIMIT_MAX_REQUESTS",
     "MAX_SEARCH_RESULTS", "MAX_QUERY_LENGTH", "SEARCH_TIMEOUT_MS"}
OptionalKeys == {"AI_MODEL", "ANTHROPIC_API_KEY", "BING_SEARCH_API_KEY"}
EnvKeys == RequiredKeys \cup IntegerKeys \cup {"AI_TEMPERATURE"} \cup OptionalKeys

\* an environment with the required keys and no override
BaseEnv == [k \in EnvKeys |-> IF k \in RequiredKeys THEN EnvWord("key") ELSE EnvUnset]

\* the other values tried for a key
Overrides(k) ==
    IF k \in RequiredKeys THEN {EnvUnset, EnvEmpty}
    ELSE IF k \in OptionalKeys THEN {EnvWord("other")}
    ELSE IF k = "AI_TEMPERATURE"
    THEN {EnvEmpty, EnvWord("abc"), EnvDecimal(-1), EnvInt(0), EnvDecimal(5), EnvInt(1),
          EnvDecimal(11), EnvInt(2)}
    ELSE {EnvEmpty, EnvWord("abc"), EnvInt(-5), EnvInt(0), EnvDecimal(5), EnvInt(1),
          EnvInt(20), EnvInt(21), EnvInt(1000), EnvInt(1001), EnvIntThenWord(12, "abc")}

\* the environments the module is loaded in: at most one key off the base
Environments ==
    {BaseEnv} \cup {[BaseEnv EXCEPT ![k] = v] : <<k, v>> \in UNION {{k} \X Overrides(k) : k \in EnvKeys}}

\* let configInstance: AppConfig | null = null
NoConfig == [null |-> TRUE]
\* no getConfig call since process.env or the singleton was last changed
NotCalled == [threw |-> FALSE, message |-> <<"not", "called">>, value |-> NoConfig]

\* a mutant: getConfig loads the configuration at every call
getConfigAlwaysLoads ==
    /\ IF loadConfig(env).threw
       THEN /\ returned' = loadConfig(env)
            /\ UNCHANGED configInstance
       ELSE /\ configInstance' = loadConfig(env).value
            /\ returned' = Returns(loadConfig(env).value)
    /\ UNCHANGED <<env, routeVars, validatorVars, chatVars>>

\* export function getConfig()
getConfig ==
    /\ IF configInstance = NoConfig
       THEN IF loadConfig(env).threw
            THEN /\ returned' = loadConfig(env)
                 /\ UNCHANGED configInstance
            ELSE /\ configInstance' = loadConfig(env).value
                 /\ returned' = Returns(loadConfig(env).value)
       ELSE /\ returned' = Returns(configInstance)
            /\ UNCHANGED configInstance
    /\ UNCHANGED <<env, routeVars, validatorVars, chatVars>>

\* export function resetConfig()
resetConfig ==
    /\ configInstance' = NoConfig
    /\ returned' = NotCalled
    /\ UNCHANGED <<env, routeVars, validatorVars, chatVars>>

\* process.env is changed between two calls, as tests of the module do
SetEnv ==
    /\ env' \in Environments \ {env}
    /\ returned' = NotCalled
    /\ UNCHANGED <<configInstance, routeVars, validatorVars, chatVars>>

\* ----------------------------------------------------------- chat component
\* The component exists in two versions: ChatInterface.tsx awaits a timer of
\* two seconds and shows a fixed answer ("mock"); part_001 awaits fetch of
\* /api/search and the decoding of its response ("api").
Components == {"mock", "api"}

\* the handleSubmit calls that got past the guard, in their order; the id of
\* the message of the k-th is Date.now().toString() read in that call, and
\* k stands for it: two submissions read different milliseconds
CallIds == 1..MaxQueries

\* abortControllerRef.current = null
NoController == 0

\* what the text area can hold
QueryTexts == {<<>>, <<Run(" ", 1)>>, <<Run("q", 3)>>}

\* a message without a response yet
NoAnswer == [kind |-> "none", of |-> 0]
\* the response of call k: the answer, or the text shown for an error
Answer(k) == [kind |-> "answer", of |-> k]
ErrorText(k) == [kind |-> "error", of |-> k]

NewMessage(id, query) == [id |-> id, query |-> query, isLoading |-> TRUE, response |-> NoAnswer]

\* prev.map(msg => msg.id === messageId ? {...msg, response, isLoading: false} : msg)
SetResponse(prev, messageId, response) ==
    [i \in 1..Len(prev) |->
        IF prev[i].id = messageId
        THEN [prev[i] EXCEPT !.response = response, !.isLoading = FALSE]
        ELSE prev[i]]

\* prev.filter(msg => msg.id !== messageId)
RemoveMessage(prev, messageId) == SelectSeq(prev, LAMBDA msg : msg.id # messageId)

\* prev.filter(msg => !msg.isLoading)
RemoveLoading(prev) == SelectSeq(prev, LAMBDA msg : ~msg.isLoading)

\* abortControllerRef.current?.signal.aborted
SignalAborted == abortControllerRef # NoController /\ abortControllerRef \in aborted

\* the handleSubmit calls made so far
Submitted == {k \in CallIds : calls[k] # "none"}

\* the text area changes
OnChange ==
    /\ currentQuery' \in QueryTexts \ {currentQuery}
    /\ UNCHANGED <<component, messages, isLoading, abortControllerRef, aborted, calls, stopped>>
    /\ UNCHANGED <<routeVars, validatorVars, configVars>>

\* handleSubmit, from its start to its first await
HandleSubmit ==
    /\ StrLen(Trim(currentQuery)) # 0
    /\ ~isLoading
    /\ Cardinality(Submitted) < MaxQueries
    /\ LET messageId == Cardinality(Submitted) + 1 IN
        /\ messages' = Append(messages, NewMessage(messageId, currentQuery))
        /\ currentQuery' = <<>>
        /\ isLoading' = TRUE
        /\ abortControllerRef' = messageId
        /\ calls' = [calls EXCEPT ![messageId] =
                        IF component = "mock" THEN "awaitTimer" ELSE "awaitFetch"]
    /\ UNCHANGED <<component, aborted, stopped>>
    /\ UNCHANGED <<routeVars, validatorVars, configVars>>

\* a mutant: handleStop leaves the message list alone
HandleStopKeepsMessages ==
    /\ isLoading
    /\ abortControllerRef # NoController
    /\ aborted' = aborted \cup {abortControllerRef}
    /\ isLoading' = FALSE
    /\ stopped' = stopped \cup {abortControllerRef}
    /\ UNCHANGED <<component, messages, currentQuery, abortControllerRef, calls>>
    /\ UNCHANGED <<routeVars, validatorVars, configVars>>

\* handleStop; its button is rendered only while isLoading
HandleStop ==
    /\ isLoading
    /\ abortControllerRef # NoController
    /\ aborted' = aborted \cup {abortControllerRef}
    /\ isLoading' = FALSE
    /\ messages' = RemoveLoading(messages)
    /\ stopped' = stopped \cup {abortControllerRef}
    /\ UNCHANGED <<component, currentQuery, abortControllerRef, calls>>
    /\ UNCHANGED <<routeVars, validatorVars, configVars>>

\* the finally block of handleSubmit call k
Finally(k) ==
    /\ isLoading' = FALSE
    /\ abortControllerRef' = NoController
    /\ calls' = [calls EXCEPT ![k] = "done"]

\* ChatInterface.tsx: the timer of call k fires; the rest of handleSubmit
TimerDone(k) ==
    /\ component = "mock"
    /\ calls[k] = "awaitTimer"
    /\ messages' = IF SignalAborted THEN messages ELSE SetResponse(messages, k, Answer(k))
    /\ Finally(k)
    /\ UNCHANGED <<component, currentQuery, aborted, stopped>>
    /\ UNCHANGED <<routeVars, validatorVars, configVars>>

\* part_001: fetch of call k settles.  Its signal aborted, it rejects with an
\* AbortError; otherwise it rejects for the network or resolves with a
\* response, ok or not
FetchSettles(k) ==
    /\ component = "api"
    /\ calls[k] = "awaitFetch"
    /\ IF k \in aborted
       THEN /\ messages' = RemoveMessage(messages, k)
            /\ Finally(k)
       ELSE \E outcome \in {"reject", "notok", "ok"} :
            IF outcome = "reject"
            THEN /\ messages' = SetResponse(messages, k, ErrorText(k))
                 /\ Finally(k)
            ELSE IF SignalAborted
            THEN /\ UNCHANGED messages
                 /\ Finally(k)
            ELSE /\ calls' = [calls EXCEPT ![k] = IF outcome = "ok" THEN "awaitJson"
                                                  ELSE "awaitErrorJson"]
                 /\ UNCHANGED <<messages, isLoading, abortControllerRef>>
    /\ UNCHANGED <<component, currentQuery, aborted, stopped>>
    /\ UNCHANGED <<routeVars, validatorVars, configVars>>

\* part_001: response.json() of an ok response settles: it resolves, it
\* rejects for a body that is no JSON, or, the signal aborted while the body
\* was still read, it rejects with an AbortError
JsonSettles(k) ==
    /\ component = "api"
    /\ calls[k] = "awaitJson"
    /\ \E outcome \in (IF k \in aborted THEN {"resolve", "abort"} ELSE {"resolve", "reject"}) :
        messages' = CASE outcome = "resolve" -> SetResponse(messages, k, Answer(k))
                      [] outcome = "reject" -> SetResponse(messages, k, ErrorText(k))
                      [] outcome = "abort" -> RemoveMessage(messages, k)
    /\ Finally(k)
    /\ UNCHANGED <<component, currentQuery, aborted, stopped>>
    /\ UNCHANGED <<routeVars, validatorVars, configVars>>

\* part_001: response.json().catch(() => ({})) of a response that is not ok
\* settles; handleSubmit throws an Error, which its catch block shows
ErrorJsonSettles(k) ==
    /\ component = "api"
    /\ calls[k] = "awaitErrorJson"
    /\ messages' = SetResponse(messages, k, ErrorText(k))
    /\ Finally(k)
    /\ UNCHANGED <<component, currentQuery, aborted, stopped>>
    /\ UNCHANGED <<routeVars, validatorVars, configVars>>

\* ------------------------------------------------------------------- inputs
A(n) == Run("a", n)
Sp(n) == Run(" ", n)
Lt(n) == Run("<", n)
Amp(n) == Run("&", n)

\* how request.json() can settle: no body, text that is no JSON, JSON
RawKinds == {"empty", "malformed", "json"}

QueryValues ==
    {JUndefined, JNull, JNumber, JTrue,
     JString(<<>>), JString(<<Sp(3)>>),
     JString(<<A(501)>>), JString(<<Sp(1), A(501)>>), JString(<<Lt(501)>>),
     JString(<<Lt(1), Amp(2)>>), JString(<<Sp(1), Lt(1), Sp(1)>>),
     JString(<<A(500)>>), JString(<<Sp(2), A(3), Lt(1), A(1), Sp(1)>>),
     JString(<<Lt(1), Sp(1), Lt(1)>>), JString(<<Amp(1), Sp(2), A(3)>>),
     JString(<<Run(LoneSurrogate, 1)>>)}

PipelineBodies ==
    {BodyOf(JNull), BodyOf(JZero), BodyOf(JNumber), BodyOf(JString(<<A(5)>>)), JArray}
    \cup {JObject(q, JUndefined) : q \in QueryValues}
    \cup {JObject(JString(<<A(3)>>), JString(<<Sp(1), A(2), Amp(1)>>))}

Good(u) == Item("title", u, "snippet", "icon")

PipelineData ==
    {SearchData(TRUE, "absent", <<>>),
     SearchData(FALSE, "absent", <<>>),
     SearchData(FALSE, "nonarray", <<>>),
     SearchData(FALSE, "array", <<>>),
     SearchData(FALSE, "array", <<Good(UrlA), Good(UrlB)>>),
     SearchData(FALSE, "array", <<Item("", "", "", "icon"), Good(UrlB)>>),
     SearchData(FALSE, "array", <<Good(UrlA), Item("title", "", "snippet", "")>>),
     SearchData(FALSE, "array", <<Item("", UrlA, "", "")>>),
     SearchData(FALSE, "array", <<Item("title", UnparseableLink, "snippet", "")>>)}

\* ----------------------------------------------------------- specifications
\* the search route after module load
InitRoute ==
    /\ rateLimitStore = [c \in ClientIds |-> NoEntry]
    /\ requiredEnvVars \in [EnvVars -> BOOLEAN]
    /\ now = 0
    /\ h = [p \in Handlers |-> Idle]
    /\ windowCalls = [c \in ClientIds |-> 0]
    /\ lastAllowed = [c \in ClientIds |-> FALSE]
    /\ nreq = 0
    /\ nticks = 0

\* no call of validateSearchRequest on its own
InitValidator == input = NoBody /\ validated = NotValidated

\* the configuration module after load, in the base environment
InitConfig == env = BaseEnv /\ configInstance = NoConfig /\ returned = NotCalled

\* the chat component when mounted
InitChat ==
    /\ messages = <<>>
    /\ currentQuery = <<>>
    /\ isLoading = FALSE
    /\ abortControllerRef = NoController
    /\ aborted = {}
    /\ calls = [k \in CallIds |-> "none"]
    /\ stopped = {}

Init == InitRoute /\ InitValidator /\ InitConfig /\ InitChat /\ component = "api"

\* one request at a time, from a client without proxy headers, with every
\* kind of body and of provider answer
NextPipeline ==
    \/ POST_Start("h1", {NoHeader}, {NoHeader})
    \/ POST_Body("h1", RawKinds, PipelineBodies)
    \/ Search_Fetch("h1", FetchOutcomes)
    \/ Search_Json("h1", PipelineData)
    \/ Answer_Done("h1", LlmOutcomes)
    \/ Other_Method("h1")
    \/ Return("h1")
    \/ Tick

SpecPipeline == Init /\ [][NextPipeline]_vars

ConcurrentBodies == {JObject(JUndefined, JUndefined), JObject(JString(<<A(3)>>), JUndefined)}
ConcurrentData == {SearchData(FALSE, "array", <<Good(UrlA)>>)}

\* concurrent handlers, a client with and one without a proxy header, one
\* input for each way a request can end
Next ==
    \/ \E p \in Handlers : POST_Start(p, ForwardedFor, {NoHeader})
    \/ \E p \in Handlers : POST_Body(p, {"json"}, ConcurrentBodies)
    \/ \E p \in Handlers : Search_Fetch(p, {"reject", "ok"})
    \/ \E p \in Handlers : Search_Json(p, ConcurrentData)
    \/ \E p \in Handlers : Answer_Done(p, {"reject", "content"})
    \/ \E p \in Handlers : Return(p)
    \/ Tick

Spec == Init /\ [][Next]_vars

\* the route with every environment key set and no request yet
RouteAtRest == InitRoute /\ requiredEnvVars = [k \in EnvVars |-> TRUE]

\* requests with every combination of the two proxy headers, each ended by
\* the validator
ClientBodies == {JObject(JUndefined, JUndefined)}

NextClients ==
    \/ POST_Start("h1", ForwardedFor, RealIp)
    \/ POST_Body("h1", {"json"}, ClientBodies)
    \/ Return("h1")
    \/ Tick

InitClients == RouteAtRest /\ InitValidator /\ InitConfig /\ InitChat /\ component = "api"

SpecClients == InitClients /\ [][NextClients]_vars

\* the texts of at most n runs of one character each
RECURSIVE Texts(_, _)
Texts(chars, n) ==
    IF n = 0 THEN {<<>>}
    ELSE Texts(chars, n - 1)
         \cup {Append(s, Run(c, 1)) : s \in Texts(chars, n - 1), c \in chars}

ValidateQueries ==
    {JUndefined, JNull, JNumber}
    \cup {JString(s) : s \in Texts({"a", " ", "<", "'"}, MaxRuns - 1)}
    \cup {JString(<<A(500)>>), JString(<<A(501)>>), JString(<<Sp(1), A(500), Sp(1)>>),
          JString(<<Lt(1), A(500)>>), JString(<<Lt(1), Sp(1), Amp(1)>>)}

ValidateLocations ==
    {JUndefined, JNull, JZero, JNumber, JTrue}
    \cup {JString(s) : s \in Texts({"a", " ", "<", "&"}, MaxRuns)}
    \cup {JString(<<A(100)>>), JString(<<A(101)>>), JString(<<Sp(1), A(100), Sp(1)>>),
          JString(<<Lt(1), A(100)>>), JString(<<Lt(1), A(99)>>), JString(<<Lt(100)>>),
          JString(<<Sp(101)>>)}

ValidateBodies ==
    {BodyOf(JNull), JArray} \cup {JObject(q, l) : q \in ValidateQueries, l \in ValidateLocations}

\* validateSearchRequest called once, on every body of ValidateBodies
NextValidate == Validate

InitValidate ==
    /\ RouteAtRest /\ InitConfig /\ InitChat /\ component = "api"
    /\ input \in ValidateBodies /\ validated = NotValidated

SpecValidate == InitValidate /\ [][NextValidate]_vars

\* the configuration module in every environment of Environments, with
\* calls of getConfig and resetConfig and changes of process.env in any order
NextConfig == getConfig \/ resetConfig \/ SetEnv

InitEnvironments ==
    /\ RouteAtRest /\ InitValidator /\ InitChat /\ component = "api"
    /\ env \in Environments /\ configInstance = NoConfig /\ returned = NotCalled

SpecConfig == InitEnvironments /\ [][NextConfig]_vars

\* either version of the chat component, with the user's events and the
\* settling of the awaited promises in any order
NextChat ==
    \/ OnChange
    \/ HandleSubmit
    \/ HandleStop
    \/ \E k \in CallIds : TimerDone(k)
    \/ \E k \in CallIds : FetchSettles(k)
    \/ \E k \in CallIds : JsonSettles(k)
    \/ \E k \in CallIds : ErrorJsonSettles(k)

InitComponents ==
    RouteAtRest /\ InitValidator /\ InitConfig /\ InitChat /\ component \in Components

SpecChat == InitComponents /\ [][NextChat]_vars

\* ------------------------------------------------------------------- claims
Entry(c) == rateLimitStore[c]
HasEntry(c) == rateLimitStore[c] # NoEntry
\* a step in which checkRateLimit was called for client c
CalledOn(c) == windowCalls'[c] # windowCalls[c] \/ rateLimitStore'[c] # rateLimitStore[c]

\* in a window, the k-th call is allowed exactly when k <= max, and the count
\* is the number of calls allowed
C1_WindowCounts ==
    \A c \in ClientIds :
        HasEntry(c) =>
            /\ windowCalls[c] >= 1
            /\ windowCalls[c] <= RATE_LIMIT_MAX_REQUESTS
                  => lastAllowed[c] /\ Entry(c).count = windowCalls[c]
            /\ windowCalls[c] > RATE_LIMIT_MAX_REQUESTS
                  => ~lastAllowed[c] /\ Entry(c).count = RATE_LIMIT_MAX_REQUESTS

\* a call for a client with no entry, or made after resetTime, is allowed and
\* starts a window; any other call stays in the window
C1_CallStep ==
    \A c \in ClientIds :
        CalledOn(c) =>
            IF ~HasEntry(c) \/ now > Entry(c).resetTime
            THEN /\ lastAllowed'[c]
                 /\ rateLimitStore'[c] = [count |-> 1, resetTime |-> now + RATE_LIMIT_WINDOW]
                 /\ windowCalls'[c] = 1
            ELSE /\ rateLimitStore'[c].resetTime = Entry(c).resetTime
                 /\ windowCalls'[c] = windowCalls[c] + 1

\* C1: of the checkRateLimit calls made for a client at non-decreasing times,
\* the first max (10) of a window are allowed, every further call made while
\* now <= resetTime is denied, and the first call made after resetTime is
\* allowed and replaces the entry with {count: 1, resetTime: now + window}.
C1_FixedWindow == []C1_WindowCounts /\ [][C1_CallStep]_vars

\* C1's case: twelve calls of one client; the first alone in its window, the
\* second made after that window's resetTime, and the last one denied
C1_Witness ==
    \E c \in ClientIds :
        /\ \A d \in ClientIds \ {c} : ~HasEntry(d)
        /\ nreq = 12
        /\ windowCalls[c] = RATE_LIMIT_MAX_REQUESTS + 1
        /\ ~lastAllowed[c]
        /\ Entry(c) = [count |-> RATE_LIMIT_MAX_REQUESTS,
                       resetTime |-> 2 * RATE_LIMIT_WINDOW + 1]

\* C2: whatever the interleaving of the POST handlers (they suspend only at
\* their awaits, never inside checkRateLimit), every entry of the rate-limit
\* table has 1 <= count <= max, and a window allows no more than max requests.
C2_CountWithinLimit ==
    \A c \in ClientIds :
        HasEntry(c) =>
            /\ Entry(c).count >= 1
            /\ Entry(c).count <= RATE_LIMIT_MAX_REQUESTS
            /\ Entry(c).count <= windowCalls[c]

\* C2's case: a client at its limit, one of its requests denied while another
\* handler is suspended at an await
C2_Witness ==
    \E c \in ClientIds, p, q \in Handlers :
        /\ Entry(c).count = RATE_LIMIT_MAX_REQUESTS
        /\ windowCalls[c] > RATE_LIMIT_MAX_REQUESTS
        /\ h[p].pc = "awaitCompletion"
        /\ h[q].pc = "done" /\ h[q].response.status = 429

\* the order in which POST goes through its stages
PipelineOrder ==
    <<"environment", "ratelimit", "decode", "validate", "search", "synthesize", "respond">>
Rank(stage) == CHOOSE i \in 1..Len(PipelineOrder) : PipelineOrder[i] = stage
Done(p) == h[p].pc = "done"
PostDone(p) == h[p].pc = "done" /\ h[p].method = "POST"

\* C3 as claimed: the rate-limit check of a request comes only after its body
\* has passed validation (so a request the validator rejects is never counted).
C3_ValidatedBeforeCounted ==
    \A p \in Handlers :
        \A i \in 1..Len(h[p].stages) :
            h[p].stages[i] = "ratelimit"
                => \E j \in 1..(i - 1) : h[p].stages[j] = "validate"

\* the stages of a request follow PipelineOrder, and decoding and validation
\* come after the rate-limit check, whose update is then in the table
C3_Order ==
    \A p \in Handlers :
        /\ \A i, j \in 1..Len(h[p].stages) :
              i < j => Rank(h[p].stages[i]) < Rank(h[p].stages[j])
        /\ \A i \in 1..Len(h[p].stages) :
              h[p].stages[i] \in {"decode", "validate", "search", "synthesize"}
                  => \E j \in 1..(i - 1) : h[p].stages[j] = "ratelimit"
        /\ h[p].cause = "validator" => \E c \in ClientIds : Entry(c).count >= 1

\* the step that decodes and validates the body leaves the table as it is
C3_ValidationStep ==
    \A p \in Handlers :
        h[p].pc = "awaitBody" /\ h'[p].pc # "awaitBody"
            => rateLimitStore' = rateLimitStore

\* C3 (amended): each POST is processed in the order environment check ->
\* rate-limit check -> body decoding -> validation -> fetch sources ->
\* synthesize answer -> assemble response; the rate-limit check and its update
\* of the client's counter come before the body is decoded and validated, so a
\* request the validator rejects has been counted and stays counted.
C3_CountedBeforeValidated == []C3_Order /\ [][C3_ValidationStep]_vars

\* C3's case: a request rejected by the validator, answered with 400, with its
\* client's counter at 1
C3_Witness ==
    \E p \in Handlers :
        /\ PostDone(p) /\ h[p].cause = "validator" /\ h[p].response.status = 400
        /\ h[p].stages = <<"environment", "ratelimit", "decode", "validate", "respond">>
        /\ Entry("unknown").count = 1 /\ nreq = 1

\* C4: a POST that fails for another reason than a missing configuration
\* value, a validator rejection or a rate-limit denial is answered with HTTP
\* 500 and {error: 'Internal server error'}; HTTP 400 with a passed-through
\* message is only for the validator's errors.
C4_OnlyValidatorErrorsPassThrough ==
    \A p \in Handlers :
        PostDone(p) =>
            /\ h[p].cause \in {"decode", "encode", "search", "llm"}
                  => h[p].response.status = 500 /\ h[p].response.error = MsgInternal
            /\ h[p].response.status = 400 => h[p].cause = "validator"

\* the decoded bodies C5 is about: no query, a query that is no string, a
\* query whose trimmed text is empty or longer than 500 characters
BadQuery(body) ==
    \/ body.query.t # "string"
    \/ StrLen(Trim(body.query.s)) = 0
    \/ StrLen(Trim(body.query.s)) > 500

\* C5: for every decoded body that lacks a query, whose query is not a string,
\* or whose trimmed query is empty or longer than 500 characters, validation
\* fails and the handler answers HTTP 400 with the validator's message; for
\* the body {} the message is 'Query is required and must be a string'.
C5_BadQueryIs400 ==
    \A p \in Handlers :
        (PostDone(p) /\ h[p].raw = "json" /\ BadQuery(h[p].body)) =>
            /\ h[p].cause = "validator"
            /\ h[p].response.status = 400
            /\ h[p].response.error \in ValidatorMessages
            /\ h[p].response.error = validateSearchRequest(h[p].body).message
            /\ h[p].body = JObject(JUndefined, JUndefined)
                  => h[p].response.error = MsgQueryRequired
            /\ (h[p].body.t = "object" /\ h[p].body.query.t = "string"
                /\ StrLen(Trim(h[p].body.query.s)) > 500)
                  => h[p].response.error = MsgQueryTooLong

\* C5's case: a query of 502 characters, 501 of them after trimming, rejected
C5_Witness ==
    \E p \in Handlers :
        /\ PostDone(p)
        /\ h[p].body = JObject(JString(<<Sp(1), A(501)>>), JUndefined)
        /\ h[p].response.status = 400
        /\ h[p].response.error = MsgQueryTooLong

\* the decoded value is absent or no structured object
NotAnObject(body) == ~Truthy(body) \/ TypeOf(body) # "object"

\* C6 as claimed: a POST whose body is absent, cannot be decoded or is not a
\* structured object is answered with HTTP 400.
C6_UndecodableIs400 ==
    \A p \in Handlers :
        (PostDone(p) /\ h[p].raw # ""
         /\ (h[p].raw \in {"empty", "malformed"} \/ NotAnObject(h[p].body)))
            => h[p].response.status = 400

\* C6 (amended): a POST whose body decodes to null or to a value that is not
\* a structured object fails in the validator with 'Invalid request body' and
\* is answered with HTTP 400; a body that is missing or is no JSON makes
\* request.json() fail before the validator runs, and a missing body is
\* answered with HTTP 500 and the generic message.
C6_DecodedNonObjectIs400 ==
    \A p \in Handlers :
        PostDone(p) =>
            /\ (h[p].raw = "json" /\ NotAnObject(h[p].body))
                  => /\ h[p].cause = "validator"
                     /\ h[p].response.status = 400
                     /\ h[p].response.error = MsgInvalidBody
            /\ h[p].raw \in {"empty", "malformed"}
                  => /\ h[p].cause = "decode"
                     /\ \A i \in 1..Len(h[p].stages) : h[p].stages[i] # "validate"
            /\ h[p].raw = "empty"
                  => h[p].response.status = 500 /\ h[p].response.error = MsgInternal

\* C6's case: the body null, rejected by the validator
C6_Witness ==
    \E p \in Handlers :
        /\ PostDone(p) /\ h[p].raw = "json" /\ h[p].body = BodyOf(JNull)
        /\ h[p].response.status = 400 /\ h[p].response.error = MsgInvalidBody

\* C7: every response of the POST handler (200, 400, 429, 500 for a missing
\* configuration, 500 for anything else) carries the four security headers.
C7_SecurityHeadersOnEveryPost ==
    \A p \in Handlers :
        PostDone(p) =>
            /\ h[p].response.status \in {200, 400, 429, 500}
            /\ SecurityHeaders \subseteq h[p].response.headers

\* C7's case: a request denied by the rate limiter, answered with 429
C7_Witness ==
    \E p \in Handlers :
        /\ PostDone(p) /\ h[p].cause = "ratelimit" /\ h[p].response.status = 429
        /\ SecurityHeaders \subseteq h[p].response.headers

\* C8: a request with any other method than POST is answered with HTTP 405
\* and carries the four security headers.
C8_OtherMethodsGet405WithHeaders ==
    \A p \in Handlers :
        (Done(p) /\ h[p].method # "POST") =>
            /\ h[p].response.status = 405
            /\ SecurityHeaders \subseteq h[p].response.headers

RECURSIVE Links(_)
\* the links of the raw results that have one, in their order
Links(results) ==
    IF results = <<>> THEN <<>>
    ELSE IF Head(results).link # "" THEN <<Head(results).link>> \o Links(Tail(results))
    ELSE Links(Tail(results))

Urls(sources) == [i \in 1..Len(sources) |-> sources[i].url]

\* C9: for every successful provider answer, the results without a link are
\* left out, the others are returned in their order, and a result without a
\* link never makes the fetch fail.
C9_ResultsWithoutUrlAreDropped ==
    \A p \in Handlers :
        (h[p].data.kind = "array" /\ ~h[p].data.error) =>
            /\ h[p].cause # "search"
            /\ Urls(h[p].sources) = Links(h[p].data.results)

\* a provider answer without an organic_results array
NoResults(data) == data.kind \in {"absent", "nonarray"} /\ ~data.error

\* C10 as claimed: when the provider answers without a results array the
\* request ends with HTTP 200 and sources = [].
C10_NoResultsEndsWith200 ==
    \A p \in Handlers :
        (PostDone(p) /\ NoResults(h[p].data)) =>
            h[p].response.status = 200 /\ h[p].response.sources = <<>>

\* C10 (amended): when the provider answers without a results array (or with
\* a non-sequence), the fetcher returns an empty sequence without error, the
\* synthesizer is still invoked with an empty context block, and the request
\* ends with HTTP 200 and sources = [] when the language-model call succeeds,
\* and with HTTP 500 and the generic message when it fails.
C10_NoResultsStillSynthesized ==
    \A p \in Handlers :
        NoResults(h[p].data) =>
            /\ h[p].pc \in {"awaitCompletion", "done"}
            /\ h[p].sources = <<>> /\ h[p].context = <<>>
            /\ \E i \in 1..Len(h[p].stages) : h[p].stages[i] = "synthesize"
            /\ h[p].cause \in {"", "llm"}
            /\ (Done(p) /\ h[p].cause = "")
                  => h[p].response.status = 200 /\ h[p].response.sources = <<>>
            /\ (Done(p) /\ h[p].cause = "llm")
                  => h[p].response.status = 500 /\ h[p].response.error = MsgInternal

\* C10's case: no results array, the fallback answer, HTTP 200
C10_Witness ==
    \E p \in Handlers :
        /\ PostDone(p) /\ h[p].data = SearchData(FALSE, "absent", <<>>)
        /\ h[p].response.status = 200 /\ h[p].response.sources = <<>>
        /\ h[p].response.answer = MsgFallbackAnswer

\* how many times stage occurs in the stages of a request
Times(stages, stage) == Cardinality({i \in 1..Len(stages) : stages[i] = stage})
\* the position of the first occurrence, 0 when there is none
First(stages, stage) ==
    IF Times(stages, stage) = 0 THEN 0
    ELSE CHOOSE i \in 1..Len(stages) :
            stages[i] = stage /\ \A j \in 1..(i - 1) : stages[j] # stage

AtLimit(c) ==
    /\ HasEntry(c)
    /\ now <= Entry(c).resetTime
    /\ Entry(c).count >= RATE_LIMIT_MAX_REQUESTS

\* in a step that calls checkRateLimit for a client that is at its limit, the
\* request is denied, answered with 429, and the table is what it was
C12_DeniedStep ==
    \A c \in ClientIds :
        windowCalls'[c] # windowCalls[c] /\ AtLimit(c) =>
            /\ ~lastAllowed'[c]
            /\ rateLimitStore' = rateLimitStore
            /\ \E p \in Handlers :
                h[p].pc = "idle" /\ h'[p].pc = "done" /\ h'[p].response.status = 429

\* C12: when checkRateLimit denies a request (the client has a live entry
\* with count >= max) the rate-limit table is left unchanged: the count and
\* the resetTime of the client keep their values and no other entry changes.
C12_DeniedLeavesTable == [][C12_DeniedStep]_vars

\* a client has been denied and its entry is what its tenth request left;
\* the clock stands at the end of that window and another client has an entry
C12_Witness ==
    \E c, d \in ClientIds :
        /\ c # d
        /\ HasEntry(d)
        /\ ~lastAllowed[c]
        /\ windowCalls[c] > RATE_LIMIT_MAX_REQUESTS
        /\ Entry(c) = [count |-> RATE_LIMIT_MAX_REQUESTS, resetTime |-> RATE_LIMIT_WINDOW]
        /\ now = RATE_LIMIT_WINDOW

\* the request carries the header with a value
Carries(header) == header # NoHeader /\ header # ""

\* the identifier the claim gives a request with these two headers
C13_Key(xff, xri) ==
    IF Carries(xff) THEN xff ELSE IF Carries(xri) THEN xri ELSE "unknown"

\* a step in which POST starts for a request with the headers xff and xri:
\* the call of the limiter is counted for C13_Key(xff, xri), and the entry of
\* every other identifier is what it was
C13_StartStep ==
    \A xff \in ForwardedFor, xri \in RealIp :
        POST_Start("h1", {xff}, {xri}) =>
            /\ CalledOn(C13_Key(xff, xri))
            /\ \A c \in ClientIds \ {C13_Key(xff, xri)} :
                /\ rateLimitStore'[c] = rateLimitStore[c]
                /\ windowCalls'[c] = windowCalls[c]

\* C13: the rate-limit key of a request is its x-forwarded-for header, else
\* its x-real-ip header, else the literal 'unknown', so that all requests
\* without the two headers are counted against the one entry 'unknown'; and
\* no step changes the entry (count or resetTime) of more than one identifier.
C13_KeyedByHeader ==
    [][/\ C13_StartStep
       /\ \A c, d \in ClientIds :
            rateLimitStore'[c] # rateLimitStore[c] /\ rateLimitStore'[d] # rateLimitStore[d]
                => c = d]_vars

\* requests without headers, with x-real-ip only and with x-forwarded-for
\* have been counted, each against its own entry
C13_Witness ==
    /\ ClientIds = {"unknown", "203.0.113.7", "198.51.100.9"}
    /\ Entry("unknown").count = 3
    /\ Entry("198.51.100.9").count = 1
    /\ Entry("203.0.113.7").count = 2
    /\ Entry("203.0.113.7").resetTime > Entry("unknown").resetTime

\* the texts the validator sanitizes in a body: the trimmed query and the
\* trimmed location
TextsOf(b) == {Trim(b.query.s), Trim(b.location.s)}
\* no character of the denylist is left in s
Clean(s) == \A i \in 1..Len(s) : s[i].c \notin Denylist

\* C14: the removal of every occurrence of < > " ' & is idempotent: for
\* every text s, strip(strip(s)) = strip(s), and strip(s) holds none of the
\* five characters; so do the query and the location the validator returns.
C14_SanitizeIdempotent ==
    validated # NotValidated =>
        /\ \A s \in TextsOf(input) :
            /\ Sanitize(Sanitize(s)) = Sanitize(s)
            /\ Clean(Sanitize(s))
        /\ validated.ok =>
            /\ Sanitize(validated.query) = validated.query
            /\ Sanitize(validated.location) = validated.location
            /\ Clean(validated.query)
            /\ Clean(validated.location)

\* the validator has returned a query and a location from both of which it
\* removed characters, two of them from the location
C14_Witness ==
    /\ validated.ok
    /\ validated.hasLocation
    /\ validated.query # Trim(input.query.s)
    /\ Len(validated.location) = Len(Trim(input.location.s)) - 2
    /\ validated.location # <<>>

\* the query of the body is one the validator accepts
ValidQuery(b) ==
    /\ b.t = "object"
    /\ b.query.t = "string"
    /\ StrLen(Trim(b.query.s)) \in 1..500
    /\ StrLen(Sanitize(Trim(b.query.s))) > 0
\* the location is a string whose trimmed length is between 1 and 100
KeptLocation(l) == l.t = "string" /\ StrLen(Trim(l.s)) \in 1..100

\* C15: the location never makes validation fail: for every body with a
\* valid query the validator returns, with a location exactly when the input
\* location is a string whose trimmed length is between 1 and 100; that
\* location is the trimmed value without the denylist characters (0 to 100
\* characters); in every other case the result has no location.
C15_LocationNeverFails ==
    validated # NotValidated /\ ValidQuery(input) =>
        /\ validated.ok
        /\ validated.hasLocation <=> KeptLocation(input.location)
        /\ validated.hasLocation =>
            /\ validated.location = Sanitize(Trim(input.location.s))
            /\ StrLen(validated.location) \in 0..100
        /\ ~validated.hasLocation => validated.location = <<>>

\* a location of exactly 100 characters after trimming has been kept
C15_Witness ==
    /\ validated.ok
    /\ validated.hasLocation
    /\ StrLen(Trim(input.location.s)) = 100
    /\ input.location.s # Trim(input.location.s)

\* a configuration as the claim says loadConfig returns it
InRange(config) ==
    /\ config.openai.temperature.tenths \in 0..10
    /\ config.openai.maxTokens.tenths > 0
    /\ config.rateLimit.windowMs.tenths > 0
    /\ config.rateLimit.maxRequests.tenths > 0
    /\ config.search.maxResults.tenths \in 10..(10 * 20)
    /\ config.search.maxQueryLength.tenths \in 10..(10 * 1000)
    /\ config.search.timeoutMs.tenths > 0

\* C16: loadConfig throws whenever a required key is missing or a numeric
\* override is outside its valid range, so every configuration it returns
\* (here through getConfig) has temperature in 0..1, positive max tokens,
\* positive rate-limit window and max requests, result count in 1..20, query
\* length in 1..1000 and positive timeout.
C16_LoadedConfigInRange ==
    /\ (\E k \in RequiredKeys : Falsy(env[k])) => loadConfig(env).threw
    /\ returned # NotCalled /\ ~returned.threw => InRange(returned.value)

\* a step in which getConfig is called for the first time since process.env
\* or the singleton was last changed: with a cached configuration it returns
\* that one and keeps it, whatever process.env holds by now; with none it
\* loads, and caches what it returns, or throws and caches nothing
C18_CallStep ==
    returned = NotCalled /\ returned' # NotCalled =>
        IF configInstance # NoConfig
        THEN /\ returned' = Returns(configInstance)
             /\ configInstance' = configInstance
        ELSE /\ returned' = loadConfig(env)
             /\ returned'.threw => configInstance' = NoConfig
             /\ ~returned'.threw => configInstance' = returned'.value

\* the singleton changes only by a load from empty or by resetConfig
C18_CacheStep ==
    configInstance' # configInstance =>
        \/ configInstance = NoConfig /\ configInstance' = loadConfig(env).value
        \/ configInstance' = NoConfig /\ returned' = NotCalled

\* C18: getConfig builds the configuration lazily and once: after a call
\* that succeeds every later call returns that same configuration without
\* reading the environment again, until resetConfig; after resetConfig the
\* next call loads again; and a call that fails caches nothing, so that the
\* next call attempts the load again.
C18_LazyOnce ==
    /\ [](returned # NotCalled /\ ~returned.threw => returned.value = configInstance)
    /\ [](returned # NotCalled /\ returned.threw =>
            configInstance = NoConfig /\ returned = loadConfig(env))
    /\ [][C18_CallStep /\ C18_CacheStep]_vars

\* getConfig has returned the cached configuration although process.env has
\* changed since to one from which loadConfig builds another
C18_Witness ==
    /\ returned # NotCalled
    /\ returned.value = configInstance
    /\ ~loadConfig(env).threw
    /\ loadConfig(env).value # configInstance
    /\ env # BaseEnv
    /\ configInstance # ConfigOf(BaseEnv)

\* handleSubmit call k stands at an await
Pending(k) == calls[k] \in {"awaitTimer", "awaitFetch", "awaitJson", "awaitErrorJson"}

\* C17: once handleStop has stopped a query, the message of that query is
\* not in the message list, and no message shows an answer or an error text
\* of that query, whenever its response, rejection or timer arrives later and
\* whether or not another query was submitted in between.
C17_StoppedNeverShown ==
    \A k \in stopped :
        \A i \in 1..Len(messages) :
            /\ messages[i].id # k
            /\ messages[i].response.of # k

\* the first query was stopped and its call has ended after the second
\* query was submitted: the second call is pending and not aborted, yet the
\* reference it had set is cleared, which only the finally block of the first
\* call can have done; the list shows the second query alone
C17_Witness ==
    /\ 1 \in stopped
    /\ calls[1] = "done"
    /\ Pending(2)
    /\ 2 \notin aborted
    /\ abortControllerRef = NoController
    /\ messages = <<NewMessage(2, <<Run("q", 3)>>)>>

\* the queries in flight: submitted, not stopped, their call not ended
InFlight == {k \in CallIds : Pending(k) /\ k \notin aborted}

\* C19: for every interleaving of submit, stop and completion events at
\* most one query is in flight and at most one message has isLoading = true;
\* while a query is in flight the isLoading flag is true and
\* abortControllerRef holds the controller of that query.
C19_OneQueryInFlight ==
    /\ Cardinality(InFlight) <= 1
    /\ Cardinality({i \in 1..Len(messages) : messages[i].isLoading}) <= 1
    /\ \A k \in InFlight : isLoading /\ abortControllerRef = k

\* C20: every query validateSearchRequest accepts, and POST passes on to the
\* search and the language model, has at least one character that is not
\* whitespace and neither starts nor ends with whitespace; a query of
\* denylist characters and whitespace only is rejected.
C20_AcceptedQueryHasText ==
    \A p \in Handlers :
        h[p].pc \in {"awaitFetch", "awaitSearchJson", "awaitCompletion"} =>
            /\ StrLen(Trim(h[p].query)) > 0
            /\ Trim(h[p].query) = h[p].query

====
